---- MODULE Spec2Model ----
(***************************************************************************)
(* Model of the two MCP dispatchers of llm-tools:                          *)
(*   src/mcp/llm-support-mcp.py        (project-analysis family)           *)
(*   src/mcp/llm-clarification-mcp.py  (tracking/learning family)          *)
(* Each dispatcher is one process serving call_tool(name, arguments).      *)
(***************************************************************************)
EXTENDS Integers, Sequences, FiniteSets, TLC

\* ------------------------------------------------------------------ bounds
MaxCalls == 2
TickStep == 60

\* ------------------------------------------------- dynamically typed values
\* A Python value: kind is its dynamic type, s its text when it is a str,
\* n its number when it is an int or a bool (bool is an int subclass),
\* items the elements it yields when iterated, pairs the entries of a dict.
Chars(s) ==
  CASE s = "src" -> <<"s", "r", "c">>
    [] s = "x"   -> <<"x">>
    [] s = ""    -> <<>>
    [] OTHER     -> <<s>>

PStr(s)  == [kind |-> "str",  s |-> s,  n |-> 0, items |-> Chars(s), pairs |-> <<>>]
PInt(n)  == [kind |-> "int",  s |-> "", n |-> n, items |-> <<>>,     pairs |-> <<>>]
PBool(b) == [kind |-> "bool", s |-> "", n |-> IF b THEN 1 ELSE 0,
             items |-> <<>>, pairs |-> <<>>]
PList(l) == [kind |-> "list", s |-> "", n |-> 0, items |-> l,        pairs |-> <<>>]
PDict(p) == [kind |-> "dict", s |-> "", n |-> 0,
             items |-> [i \in 1..Len(p) |-> p[i][1]], pairs |-> p]
\* an exception raised while the token list is being built
PRaise(t) == [kind |-> "raise", s |-> t, n |-> 0, items |-> <<>>, pairs |-> <<>>]

Digits == <<"0", "1", "2", "3", "4", "5", "6", "7", "8", "9">>

RECURSIVE IntToStr(_)
IntToStr(n) ==
  IF n < 10 THEN Digits[n + 1]
  ELSE IntToStr(n \div 10) \o Digits[(n % 10) + 1]

\* str(v)
PyStr(v) ==
  CASE v.kind = "str"  -> v.s
    [] v.kind = "int"  -> IntToStr(v.n)
    [] v.kind = "bool" -> IF v.n = 1 THEN "True" ELSE "False"
    [] v.kind = "list" -> "[list]"
    [] v.kind = "dict" -> "{dict}"
    [] OTHER           -> ""

\* bool(v), as used by `if args.get(key):`
Truthy(v) ==
  CASE v.kind = "str"  -> v.s # ""
    [] v.kind = "int"  -> v.n # 0
    [] v.kind = "bool" -> v.n # 0
    [] v.kind = "list" -> v.items # <<>>
    [] v.kind = "dict" -> v.pairs # <<>>
    [] OTHER           -> FALSE

\* ------------------------------------------------------------ ArgumentMap
\* arguments: dict, an insertion-ordered mapping; a sequence of entries
\* [key, val] with distinct keys.
Has(args, k) == \E i \in 1..Len(args) : args[i].key = k
Get(args, k) == args[CHOOSE i \in 1..Len(args) : args[i].key = k].val

\* `if key in args: cmd_args.append(args[key])`
Positional(args, k) == IF Has(args, k) THEN <<Get(args, k)>> ELSE <<>>
\* `if key in args: cmd_args.extend([flag, args[key]])`
Flagged(args, k, flag) ==
  IF Has(args, k) THEN <<PStr(flag), Get(args, k)>> ELSE <<>>
FlaggedStrDefault(args, k, flag) ==
  IF Has(args, k) THEN <<PStr(flag), PStr(PyStr(Get(args, k)))>>
  ELSE <<PStr(flag), PStr("0")>>

\* `if key in args: cmd_args.extend([flag, str(args[key])])`
FlaggedStr(args, k, flag) ==
  IF Has(args, k) THEN <<PStr(flag), PStr(PyStr(Get(args, k)))>> ELSE <<>>
BoolFlagWhenPresent(args, k, flag) ==
  IF Has(args, k) THEN <<PStr(flag)>> ELSE <<>>

\* `if args.get(key): cmd_args.append(flag)`
BoolFlag(args, k, flag) ==
  IF Has(args, k) /\ Truthy(Get(args, k)) THEN <<PStr(flag)>> ELSE <<>>

IterateReversed(v) ==
  IF v.kind \in {"str", "list", "dict"}
  THEN [i \in 1..Len(v.items) |-> PStr(v.items[Len(v.items) + 1 - i])]
  ELSE <<PRaise("TypeError")>>

\* cmd_args.extend(v): one token per element v yields; TypeError when v is
\* not iterable
Iterate(v) ==
  IF v.kind \in {"str", "list", "dict"}
  THEN [i \in 1..Len(v.items) |-> PStr(v.items[i])]
  ELSE <<PRaise("TypeError")>>
\* `if key in args: cmd_args.extend(args[key])`
Extended(args, k) == IF Has(args, k) THEN Iterate(Get(args, k)) ELSE <<>>

\* --------------------------------- argument builders, llm-support-mcp.py
_build_tree_args(args) ==
  Flagged(args, "path", "--path") \o FlaggedStr(args, "depth", "--depth")
    \o BoolFlag(args, "sizes", "--sizes")
    \o BoolFlag(args, "no_gitignore", "--no-gitignore")

_build_grep_args_flags_first(args) ==
  BoolFlag(args, "ignore_case", "-i")
    \o BoolFlag(args, "line_numbers", "-n")
    \o BoolFlag(args, "files_only", "-l")
    \o Positional(args, "pattern") \o Extended(args, "paths")

_build_grep_args(args) ==
  Positional(args, "pattern") \o Extended(args, "paths")
    \o BoolFlag(args, "ignore_case", "-i")
    \o BoolFlag(args, "line_numbers", "-n")
    \o BoolFlag(args, "files_only", "-l")

_build_multiexists_args(args) ==
  Extended(args, "paths") \o BoolFlag(args, "verbose", "--verbose")
    \o <<PStr("--no-fail")>>

_build_json_query_args(args) ==
  Positional(args, "file") \o Positional(args, "query")

_build_markdown_headers_args(args) ==
  Positional(args, "file") \o Flagged(args, "level", "--level")
    \o BoolFlag(args, "plain", "--plain")

\* `for key, value in args["vars"].items(): extend(["--var", f"{key}={value}"])`
VarTokens(v) ==
  IF v.kind = "dict"
  THEN LET P == v.pairs
           F[i \in 0..Len(P)] ==
             IF i = 0 THEN <<>>
             ELSE F[i - 1] \o <<PStr("--var"),
                                PStr(P[i][1] \o "=" \o PyStr(P[i][2]))>>
       IN  F[Len(P)]
  ELSE <<PRaise("AttributeError")>>

_build_template_args(args) ==
  Positional(args, "file")
    \o (IF Has(args, "vars") THEN VarTokens(Get(args, "vars")) ELSE <<>>)
    \o Flagged(args, "syntax", "--syntax")

_build_discover_tests_args(args) ==
  Flagged(args, "path", "--path") \o BoolFlag(args, "json", "--json")

_build_multigrep_args(args) ==
  Flagged(args, "keywords", "--keywords") \o Flagged(args, "path", "--path")
    \o Flagged(args, "extensions", "--extensions")
    \o FlaggedStr(args, "max_per_keyword", "--max-per-keyword")
    \o BoolFlag(args, "ignore_case", "--ignore-case")
    \o BoolFlag(args, "definitions_only", "--definitions-only")
    \o BoolFlag(args, "json", "--json")
    \o Flagged(args, "output_dir", "--output-dir")

_build_analyze_deps_args(args) ==
  Positional(args, "file") \o BoolFlag(args, "json", "--json")

_build_detect_args(args) ==
  Flagged(args, "path", "--path") \o BoolFlag(args, "json", "--json")

_build_count_args_key_order(args) ==
  LET F[i \in 0..Len(args)] ==
        IF i = 0 THEN <<>>
        ELSE F[i - 1] \o
             (CASE args[i].key = "mode" -> <<PStr("--mode"), args[i].val>>
                [] args[i].key = "target" -> <<args[i].val>>
                [] args[i].key = "recursive" ->
                     IF Truthy(args[i].val) THEN <<PStr("--recursive")>>
                     ELSE <<>>
                [] args[i].key = "pattern" -> <<PStr("--pattern"), args[i].val>>
                [] OTHER -> <<>>)
  IN  F[Len(args)]

_build_count_args(args) ==
  Flagged(args, "mode", "--mode") \o Positional(args, "target")
    \o BoolFlag(args, "recursive", "--recursive")
    \o Flagged(args, "pattern", "--pattern")

_build_summarize_dir_args(args) ==
  Flagged(args, "path", "--path") \o Flagged(args, "format", "--format")
    \o BoolFlag(args, "recursive", "--recursive")
    \o Flagged(args, "glob", "--glob")
    \o FlaggedStr(args, "max_tokens", "--max-tokens")

_build_deps_args(args) ==
  Positional(args, "manifest") \o Flagged(args, "type", "--type")
    \o BoolFlag(args, "json", "--json")

_build_git_context_args(args) ==
  Flagged(args, "path", "--path")
    \o BoolFlag(args, "include_diff", "--include-diff")
    \o Flagged(args, "since", "--since")
    \o FlaggedStr(args, "max_commits", "--max-commits")
    \o BoolFlag(args, "json", "--json")

\* `path = args.get("path") or args.get("plan_path")`, then `if path:`
_build_validate_plan_args(args) ==
  LET first == IF Has(args, "path") /\ Truthy(Get(args, "path"))
               THEN <<Get(args, "path")>>
               ELSE IF Has(args, "plan_path") /\ Truthy(Get(args, "plan_path"))
                    THEN <<Get(args, "plan_path")>>
                    ELSE <<>>
  IN  (IF first # <<>> THEN <<PStr("--path"), first[1]>> ELSE <<>>)
        \o BoolFlag(args, "json", "--json")

_build_partition_work_args(args) ==
  Flagged(args, "stories", "--stories") \o Flagged(args, "tasks", "--tasks")
    \o BoolFlag(args, "verbose", "--verbose")
    \o BoolFlag(args, "json", "--json")

_build_repo_root_args(args) ==
  Flagged(args, "path", "--path") \o BoolFlag(args, "validate", "--validate")

\* ---------------------------- argument builders, llm-clarification-mcp.py
_build_match_args(args) ==
  Flagged(args, "question", "--question")
    \o Flagged(args, "entries_file", "--entries-file")
    \o Flagged(args, "entries_json", "--entries-json")
    \o FlaggedStr(args, "timeout", "--timeout")

_build_cluster_args(args) ==
  Flagged(args, "questions_file", "--questions-file")
    \o Flagged(args, "questions_json", "--questions-json")
    \o FlaggedStr(args, "timeout", "--timeout")

_build_detect_conflicts_args(args) ==
  Positional(args, "tracking_file") \o FlaggedStr(args, "timeout", "--timeout")

_build_validate_args(args) ==
  Positional(args, "tracking_file") \o Flagged(args, "context", "--context")
    \o FlaggedStr(args, "timeout", "--timeout")

_build_init_args(args) ==
  Flagged(args, "output", "--output") \o BoolFlag(args, "force", "--force")

_build_add_args(args) ==
  Flagged(args, "tracking_file", "--tracking-file")
    \o Flagged(args, "question", "--question")
    \o Flagged(args, "answer", "--answer")
    \o Flagged(args, "id", "--id")
    \o Flagged(args, "sprint_id", "--sprint-id")
    \o Flagged(args, "context_tags", "--context-tags")
    \o BoolFlag(args, "check_match", "--check-match")

_build_promote_args(args) ==
  Flagged(args, "tracking_file", "--tracking-file")
    \o Flagged(args, "id", "--id") \o Flagged(args, "target", "--target")
    \o BoolFlag(args, "force", "--force")

_build_list_args(args) ==
  Positional(args, "tracking_file") \o Flagged(args, "status", "--status")
    \o FlaggedStr(args, "min_occurrences", "--min-occurrences")
    \o BoolFlag(args, "json_output", "--json")

\* ------------------------------------------------------- program constants
BINARY_PATH == "/usr/local/bin/llm-support"
SupportScript == "mcp/llm-support.py"
ClarifyScript == "mcp/llm-clarification.py"
SysExecutable == "python3"
SupportTimeout == 60
ClarifyTimeout == 120

Servers == {"support", "clarify"}
SCRIPT_PATH(srv) == IF srv = "support" THEN SupportScript ELSE ClarifyScript
PREFIX(srv) == IF srv = "support" THEN "llm_support_" ELSE "llm_clarify_"
\* the timeout= argument of subprocess.run
Timeout(srv) == IF srv = "support" THEN SupportTimeout ELSE ClarifyTimeout

\* ----------------------------------------------------------- tool names
StripPrefixNever(srv, name) == name

RECURSIVE StripPrefixRepeated(_, _)
StripPrefixRepeated(srv, name) ==
  IF Len(name) > 0 /\ name[1] = PREFIX(srv)
  THEN StripPrefixRepeated(srv, Tail(name)) ELSE name

\* A tool name is a sequence of text chunks; a prefixed name carries the
\* prefix as its first chunk.  name.startswith(PREFIX) / name[len(PREFIX):]
StripPrefix(srv, name) ==
  IF Len(name) > 0 /\ name[1] = PREFIX(srv) THEN Tail(name) ELSE name

Sub(seq) == [i \in 1..Len(seq) |-> PStr(seq[i])]

\* the if/elif chain of call_tool: the subcommand tokens and the builder's
\* tokens, or known = FALSE for the final else
SupportDispatch(cmd_name, args) ==
  CASE cmd_name = <<"tree">> ->
         [known |-> TRUE, toks |-> Sub(<<"tree">>) \o _build_tree_args(args)]
    [] cmd_name = <<"grep">> ->
         [known |-> TRUE, toks |-> Sub(<<"grep">>) \o _build_grep_args(args)]
    [] cmd_name = <<"multiexists">> ->
         [known |-> TRUE,
          toks |-> Sub(<<"multiexists">>) \o _build_multiexists_args(args)]
    [] cmd_name = <<"json_query">> ->
         [known |-> TRUE,
          toks |-> Sub(<<"json", "query">>) \o _build_json_query_args(args)]
    [] cmd_name = <<"markdown_headers">> ->
         [known |-> TRUE,
          toks |-> Sub(<<"markdown", "headers">>)
                     \o _build_markdown_headers_args(args)]
    [] cmd_name = <<"template">> ->
         [known |-> TRUE,
          toks |-> Sub(<<"template">>) \o _build_template_args(args)]
    [] cmd_name = <<"discover_tests">> ->
         [known |-> TRUE,
          toks |-> Sub(<<"discover-tests">>) \o _build_discover_tests_args(args)]
    [] cmd_name = <<"multigrep">> ->
         [known |-> TRUE,
          toks |-> Sub(<<"multigrep">>) \o _build_multigrep_args(args)]
    [] cmd_name = <<"analyze_deps">> ->
         [known |-> TRUE,
          toks |-> Sub(<<"analyze-deps">>) \o _build_analyze_deps_args(args)]
    [] cmd_name = <<"detect">> ->
         [known |-> TRUE, toks |-> Sub(<<"detect">>) \o _build_detect_args(args)]
    [] cmd_name = <<"count">> ->
         [known |-> TRUE, toks |-> Sub(<<"count">>) \o _build_count_args(args)]
    [] cmd_name = <<"summarize_dir">> ->
         [known |-> TRUE,
          toks |-> Sub(<<"summarize-dir">>) \o _build_summarize_dir_args(args)]
    [] cmd_name = <<"deps">> ->
         [known |-> TRUE, toks |-> Sub(<<"deps">>) \o _build_deps_args(args)]
    [] cmd_name = <<"git_context">> ->
         [known |-> TRUE,
          toks |-> Sub(<<"git-context">>) \o _build_git_context_args(args)]
    [] cmd_name = <<"validate_plan">> ->
         [known |-> TRUE,
          toks |-> Sub(<<"validate-plan">>) \o _build_validate_plan_args(args)]
    [] cmd_name = <<"partition_work">> ->
         [known |-> TRUE,
          toks |-> Sub(<<"partition-work">>) \o _build_partition_work_args(args)]
    [] cmd_name = <<"repo_root">> ->
         [known |-> TRUE,
          toks |-> Sub(<<"repo-root">>) \o _build_repo_root_args(args)]
    [] OTHER -> [known |-> FALSE, toks |-> <<>>]

ClarifyDispatch(cmd_name, args) ==
  CASE cmd_name = <<"match">> ->
         [known |-> TRUE,
          toks |-> Sub(<<"match-clarification">>) \o _build_match_args(args)]
    [] cmd_name = <<"cluster">> ->
         [known |-> TRUE,
          toks |-> Sub(<<"cluster-clarifications">>) \o _build_cluster_args(args)]
    [] cmd_name = <<"detect_conflicts">> ->
         [known |-> TRUE,
          toks |-> Sub(<<"detect-conflicts">>)
                     \o _build_detect_conflicts_args(args)]
    [] cmd_name = <<"validate">> ->
         [known |-> TRUE,
          toks |-> Sub(<<"validate-clarifications">>)
                     \o _build_validate_args(args)]
    [] cmd_name = <<"init">> ->
         [known |-> TRUE,
          toks |-> Sub(<<"init-tracking">>) \o _build_init_args(args)]
    [] cmd_name = <<"add">> ->
         [known |-> TRUE,
          toks |-> Sub(<<"add-clarification">>) \o _build_add_args(args)]
    [] cmd_name = <<"promote">> ->
         [known |-> TRUE,
          toks |-> Sub(<<"promote-clarification">>) \o _build_promote_args(args)]
    [] cmd_name = <<"list">> ->
         [known |-> TRUE,
          toks |-> Sub(<<"list-entries">>) \o _build_list_args(args)]
    [] OTHER -> [known |-> FALSE, toks |-> <<>>]

Dispatch(srv, cmd_name, args) ==
  IF srv = "support" THEN SupportDispatch(cmd_name, args)
  ELSE ClarifyDispatch(cmd_name, args)

\* the first exception raised while the tokens were built ("" when none)
Raised(toks) ==
  IF \E i \in 1..Len(toks) : toks[i].kind = "raise"
  THEN toks[CHOOSE i \in 1..Len(toks) :
              /\ toks[i].kind = "raise"
              /\ \A j \in 1..(i - 1) : toks[j].kind # "raise"].s
  ELSE ""

\* ------------------------------------------------ list_tools: the catalog
\* one parameter of an inputSchema: its name, its JSON type, and whether the
\* schema's "required" list names it
P(n, k, r) == [name |-> n, kind |-> k, required |-> r]

SupportTools == <<
  [name |-> "tree",
   params |-> <<P("path", "string", FALSE),
             P("depth", "integer", FALSE),
             P("sizes", "boolean", FALSE),
             P("no_gitignore", "boolean", FALSE)>>],
  [name |-> "grep",
   params |-> <<P("pattern", "string", TRUE),
             P("paths", "array", TRUE),
             P("ignore_case", "boolean", FALSE),
             P("line_numbers", "boolean", FALSE),
             P("files_only", "boolean", FALSE)>>],
  [name |-> "multiexists",
   params |-> <<P("paths", "array", TRUE),
             P("verbose", "boolean", FALSE)>>],
  [name |-> "json_query",
   params |-> <<P("file", "string", TRUE),
             P("query", "string", TRUE)>>],
  [name |-> "markdown_headers",
   params |-> <<P("file", "string", TRUE),
             P("level", "string", FALSE),
             P("plain", "boolean", FALSE)>>],
  [name |-> "template",
   params |-> <<P("file", "string", TRUE),
             P("vars", "object", FALSE),
             P("syntax", "string", FALSE)>>],
  [name |-> "discover_tests",
   params |-> <<P("path", "string", FALSE),
             P("json", "boolean", FALSE)>>],
  [name |-> "multigrep",
   params |-> <<P("keywords", "string", TRUE),
             P("path", "string", FALSE),
             P("extensions", "string", FALSE),
             P("max_per_keyword", "integer", FALSE),
             P("ignore_case", "boolean", FALSE),
             P("definitions_only", "boolean", FALSE),
             P("json", "boolean", FALSE),
             P("output_dir", "string", FALSE)>>],
  [name |-> "analyze_deps",
   params |-> <<P("file", "string", TRUE),
             P("json", "boolean", FALSE)>>],
  [name |-> "detect",
   params |-> <<P("path", "string", FALSE),
             P("json", "boolean", FALSE)>>],
  [name |-> "count",
   params |-> <<P("mode", "string", TRUE),
             P("target", "string", TRUE),
             P("recursive", "boolean", FALSE),
             P("pattern", "string", FALSE)>>],
  [name |-> "summarize_dir",
   params |-> <<P("path", "string", TRUE),
             P("format", "string", FALSE),
             P("recursive", "boolean", FALSE),
             P("glob", "string", FALSE),
             P("max_tokens", "integer", FALSE)>>],
  [name |-> "deps",
   params |-> <<P("manifest", "string", TRUE),
             P("type", "string", FALSE),
             P("json", "boolean", FALSE)>>],
  [name |-> "git_context",
   params |-> <<P("path", "string", FALSE),
             P("include_diff", "boolean", FALSE),
             P("since", "string", FALSE),
             P("max_commits", "integer", FALSE),
             P("json", "boolean", FALSE)>>],
  [name |-> "validate_plan",
   params |-> <<P("path", "string", TRUE),
             P("json", "boolean", FALSE)>>],
  [name |-> "partition_work",
   params |-> <<P("stories", "string", FALSE),
             P("tasks", "string", FALSE),
             P("verbose", "boolean", FALSE),
             P("json", "boolean", FALSE)>>],
  [name |-> "repo_root",
   params |-> <<P("path", "string", FALSE),
             P("validate", "boolean", FALSE)>>]
>>

ClarifyTools == <<
  [name |-> "match",
   params |-> <<P("question", "string", TRUE),
             P("entries_file", "string", FALSE),
             P("entries_json", "string", FALSE),
             P("timeout", "integer", FALSE)>>],
  [name |-> "cluster",
   params |-> <<P("questions_file", "string", FALSE),
             P("questions_json", "string", FALSE),
             P("timeout", "integer", FALSE)>>],
  [name |-> "detect_conflicts",
   params |-> <<P("tracking_file", "string", TRUE),
             P("timeout", "integer", FALSE)>>],
  [name |-> "validate",
   params |-> <<P("tracking_file", "string", TRUE),
             P("context", "string", FALSE),
             P("timeout", "integer", FALSE)>>],
  [name |-> "init",
   params |-> <<P("output", "string", TRUE),
             P("force", "boolean", FALSE)>>],
  [name |-> "add",
   params |-> <<P("tracking_file", "string", TRUE),
             P("question", "string", TRUE),
             P("answer", "string", FALSE),
             P("id", "string", FALSE),
             P("sprint_id", "string", FALSE),
             P("context_tags", "string", FALSE),
             P("check_match", "boolean", FALSE)>>],
  [name |-> "promote",
   params |-> <<P("tracking_file", "string", TRUE),
             P("id", "string", TRUE),
             P("target", "string", TRUE),
             P("force", "boolean", FALSE)>>],
  [name |-> "list",
   params |-> <<P("tracking_file", "string", TRUE),
             P("status", "string", FALSE),
             P("min_occurrences", "integer", FALSE),
             P("json_output", "boolean", FALSE)>>]
>>

list_tools_unrouted(srv) ==
  IF srv = "support"
  THEN Append(SupportTools,
              [name |-> "search", params |-> <<P("query", "string", TRUE)>>])
  ELSE ClarifyTools

\* list_tools(): Tool(name=f"{PREFIX}{tool}", inputSchema=...)
list_tools(srv) == IF srv = "support" THEN SupportTools ELSE ClarifyTools

\* ------------------------------------------------------ calls drawn as input
\* a value of the declared JSON type
Sample(kind) ==
  CASE kind = "string"  -> PStr("x")
    [] kind = "integer" -> PInt(2)
    [] kind = "boolean" -> PBool(TRUE)
    [] kind = "array"   -> PList(<<"src">>)
    [] kind = "object"  -> PDict(<< <<"k", PStr("v")>> >>)

Arg(k, v) == [key |-> k, val |-> v]
Required(tool) == SelectSeq(tool.params, LAMBDA p : p.required)
RequiredArgs(tool) ==
  LET R == Required(tool)
  IN  [i \in 1..Len(R) |-> Arg(R[i].name, Sample(R[i].kind))]
Omit(seq, j) ==
  [i \in 1..(Len(seq) - 1) |-> IF i < j THEN seq[i] ELSE seq[i + 1]]

Request(n, a) == [name |-> n, args |-> a]

\* every listed tool with its required arguments, and with each required
\* argument left out in turn
CatalogRequests(srv) ==
  LET T == list_tools(srv)
  IN  UNION { {Request(<<PREFIX(srv), T[i].name>>, RequiredArgs(T[i]))}
                \cup { Request(<<PREFIX(srv), T[i].name>>,
                               Omit(RequiredArgs(T[i]), j)) :
                         j \in 1..Len(RequiredArgs(T[i])) }
              : i \in 1..Len(T) }

SupportExtra ==
  { Request(<<"llm_support_", "grep">>,
            <<Arg("pattern", PStr("TODO")), Arg("paths", PList(<<"src">>)),
              Arg("ignore_case", PBool(TRUE))>>),
    Request(<<"repo_root">>, <<Arg("validate", PBool(TRUE))>>),
    Request(<<"llm_support_", "template">>,
            <<Arg("file", PStr("x")), Arg("vars", PStr("x"))>>),
    Request(<<"llm_support_", "markdown_headers">>,
            <<Arg("file", PStr("x")), Arg("level", PInt(2))>>),
    Request(<<"llm_support_", "bogus">>, <<>>),
    Request(<<"llm_support_", "llm_support_", "grep">>, <<>>),
    Request(<<"llm_support_", "grep">>,
            <<Arg("pattern", PStr("x")), Arg("paths", PStr("src"))>>),
    Request(<<"llm_support_", "grep">>,
            <<Arg("pattern", PStr("x")), Arg("paths", PInt(2))>>),
    Request(<<"llm_clarify_", "add">>, <<>>),
    Request(<<"validate">>, <<>>) }

ClarifyExtra ==
  { Request(<<"llm_clarify_", "detect_conflicts">>,
            <<Arg("tracking_file", PStr("x")), Arg("timeout", PInt(300))>>),
    Request(<<"llm_clarify_", "match">>,
            <<Arg("question", PStr("x")), Arg("timeout", PInt(300))>>),
    Request(<<"llm_clarify_", "cluster">>, <<Arg("timeout", PInt(300))>>),
    Request(<<"llm_clarify_", "validate">>,
            <<Arg("tracking_file", PStr("x")), Arg("timeout", PInt(300))>>),
    Request(<<"list">>, <<Arg("tracking_file", PStr("x"))>>),
    Request(<<"llm_clarify_", "bogus">>, <<>>),
    Request(<<"llm_support_", "grep">>, <<>>),
    Request(<<"detect">>, <<>>) }

SupportRequests == CatalogRequests("support") \cup SupportExtra
ClarifyRequests == CatalogRequests("clarify") \cup ClarifyExtra
Requests(srv) == IF srv = "support" THEN SupportRequests ELSE ClarifyRequests

\* what a finished child wrote
Stdouts == {"out"}
Stderrs == {"", "err"}
ExitCodes == {0, 1}

\* -------------------------------------------------------------------- state
VARIABLES server, phase, fs, calls
vars == <<server, phase, fs, calls>>

Calls == 1..MaxCalls

\* the paths the running dispatcher probes or executes
Paths(srv) == IF srv = "support" THEN {BINARY_PATH, SupportScript}
              ELSE {ClarifyScript}

NoCall ==
  [pc |-> "idle", name |-> <<>>, args |-> <<>>, cmd_name |-> <<>>,
   cmd |-> <<>>, backend |-> "", seen |-> {}, child |-> "none",
   script_ok |-> TRUE,
   elapsed |-> 0, code |-> 0, out |-> "", err |-> "", exc |-> "",
   payload |-> <<>>, nspawn |-> 0, nret |-> 0]

Init ==
  /\ server \in Servers
  /\ phase = "starting"
  /\ fs \in SUBSET Paths(server)
  /\ calls = [c \in Calls |-> NoCall]

MainNoCheck ==
  /\ phase = "starting"
  /\ phase' = "serving"
  /\ UNCHANGED <<server, fs, calls>>

\* main(): the existence check before the server is run
Main ==
  /\ phase = "starting"
  /\ phase' = IF server = "support"
              THEN IF BINARY_PATH \notin fs /\ SupportScript \notin fs
                   THEN "exited" ELSE "serving"
              ELSE IF ClarifyScript \notin fs THEN "exited" ELSE "serving"
  /\ UNCHANGED <<server, fs, calls>>

\* the environment installs or removes a backend file
FsChange(p) ==
  /\ phase # "exited"
  /\ fs' = IF p \in fs THEN fs \ {p} ELSE fs \cup {p}
  /\ UNCHANGED <<server, phase, calls>>

\* the c-th request message reaches the server and its handler task is
\* scheduled
Arrive(c) ==
  /\ phase = "serving"
  /\ calls[c].pc = "idle"
  /\ c > 1 => calls[c - 1].pc # "idle"
  /\ calls' = [calls EXCEPT ![c].pc = "pending"]
  /\ UNCHANGED <<server, phase, fs>>

\* ------------------------------------------------------------- call_tool
ResolveBackendScriptOnly(srv, files) ==
  IF srv = "support"
  THEN [tag |-> "fallback",
        cmd |-> <<PStr(SysExecutable), PStr(SupportScript)>>]
  ELSE [tag |-> "script",
        cmd |-> <<PStr(SysExecutable), PStr(ClarifyScript)>>]

ResolveBackendOtherFamily(srv, files) ==
  IF srv = "support"
  THEN [tag |-> "fallback",
        cmd |-> <<PStr(SysExecutable), PStr(ClarifyScript)>>]
  ELSE [tag |-> "script", cmd |-> <<PStr(BINARY_PATH)>>]

\* `if Path(BINARY_PATH).exists(): cmd = [BINARY_PATH]
\*  else: cmd = [sys.executable, str(SCRIPT_PATH)]`; the clarification
\* server has the script only
ResolveBackend(srv, files) ==
  IF srv = "support"
  THEN IF BINARY_PATH \in files
       THEN [tag |-> "native", cmd |-> <<PStr(BINARY_PATH)>>]
       ELSE [tag |-> "fallback",
             cmd |-> <<PStr(SysExecutable), PStr(SupportScript)>>]
  ELSE [tag |-> "script",
        cmd |-> <<PStr(SysExecutable), PStr(ClarifyScript)>>]

TimeoutTextShared(srv) == "60"

\* the literal of the timeout message
TimeoutText(srv) == IF srv = "support" THEN "60" ELSE "120"

ERROR_MARKER == "ERROR: "

\* subclasses of Exception that the try block can raise
ExceptionTypes ==
  {"TypeError", "AttributeError", "FileNotFoundError", "PermissionError",
   "CalledProcessError"}

\* str(e)
ExcText(t) ==
  CASE t = "TypeError"         -> "TypeError text"
    [] t = "AttributeError"    -> "object has no attribute 'items'"
    [] t = "FileNotFoundError" -> "[Errno 2] No such file or directory"
    [] t = "PermissionError"   -> "[Errno 13] Permission denied"
    [] t = "CalledProcessError" -> "returned non-zero exit status"
    [] OTHER                   -> ""

ExceptClauseOSErrorOnly(srv, t) ==
  IF t = "TimeoutExpired"
  THEN [caught |-> TRUE,
        payload |-> <<ERROR_MARKER, "Command timed out after ",
                      TimeoutText(srv), " seconds">>]
  ELSE IF t \in {"FileNotFoundError", "PermissionError"}
       THEN [caught |-> TRUE, payload |-> <<ERROR_MARKER, ExcText(t)>>]
       ELSE [caught |-> FALSE, payload |-> <<>>]

ExceptClauseNoText(srv, t) ==
  IF t = "TimeoutExpired"
  THEN [caught |-> TRUE,
        payload |-> <<ERROR_MARKER, "Command timed out after ",
                      TimeoutText(srv), " seconds">>]
  ELSE IF t \in ExceptionTypes
       THEN [caught |-> TRUE, payload |-> <<ERROR_MARKER, "command failed">>]
       ELSE [caught |-> FALSE, payload |-> <<>>]

\* the except clauses: `except subprocess.TimeoutExpired` and
\* `except Exception as e`
ExceptClause(srv, t) ==
  IF t = "TimeoutExpired"
  THEN [caught |-> TRUE,
        payload |-> <<ERROR_MARKER, "Command timed out after ",
                      TimeoutText(srv), " seconds">>]
  ELSE IF t \in ExceptionTypes
       THEN [caught |-> TRUE, payload |-> <<ERROR_MARKER, ExcText(t)>>]
       ELSE [caught |-> FALSE, payload |-> <<>>]

\* f"ERROR: Unknown tool '{name}'"
UnknownPayload(name) == <<ERROR_MARKER, "Unknown tool '">> \o name \o <<"'">>

NormalizeStderrFirst(out, err) ==
  IF err # "" THEN <<err, "\n\nSTDERR:\n", out>> ELSE <<out>>

\* `output = result.stdout; if result.stderr: output += "\n\nSTDERR:\n" + stderr`
Normalize(out, err) ==
  <<out>> \o (IF err # "" THEN <<"\n\nSTDERR:\n", err>> ELSE <<>>)

ChildLeftRunning == "running"

\* the state of the child when subprocess.run raises TimeoutExpired:
\* run() kills the child and waits for it before it re-raises
ChildAfterTimeout == "killed"

CheckExitStrict(code) == TRUE

\* whether subprocess.run treats the exit code as a failure (check=False)
CheckExit(code) == FALSE

\* `return [TextContent(type="text", text=...)]`
Returned(r, text) == [r EXCEPT !.pc = "returned", !.payload = text,
                               !.nret = r.nret + 1]

ThrownRetry(srv, r, t) ==
  LET h == ExceptClause(srv, t)
  IN  IF t = "TimeoutExpired" /\ r.nspawn < 2
      THEN [r EXCEPT !.pc = "resolved", !.elapsed = 0,
                     !.cmd = ResolveBackend(srv, r.seen).cmd]
      ELSE IF h.caught THEN Returned([r EXCEPT !.exc = t], h.payload)
           ELSE [r EXCEPT !.exc = t, !.pc = "crashed"]

\* an exception of type t leaves the try block
Thrown(srv, r, t) ==
  LET h == ExceptClause(srv, t)
  IN  IF h.caught THEN Returned([r EXCEPT !.exc = t], h.payload)
      ELSE [r EXCEPT !.exc = t, !.pc = "crashed"]

\* call_tool has no await: once the handler task runs, the event loop runs
\* nothing else until the task has returned and its result is handed over
LoopBusy == \E d \in Calls : calls[d].pc \in {"resolved", "waiting", "returned"}

BeginWithSharedCmd(c, name, args) ==
  /\ phase = "serving"
  /\ calls[c].pc = "pending"
  /\ \A d \in 1..(c - 1) : calls[d].pc # "pending"
  /\ ~LoopBusy
  /\ LET b == ResolveBackend(server, fs)
         left == IF \E d \in 1..(c - 1) : calls[d].nspawn > 0
                 THEN <<PStr("tree")>> ELSE <<>>
     IN  calls' = [calls EXCEPT ![c] =
                     [@ EXCEPT !.pc = "resolved", !.name = name,
                               !.args = args,
                               !.cmd_name = StripPrefix(server, name),
                               !.backend = b.tag, !.cmd = b.cmd \o left,
                               !.seen = fs]]
  /\ UNCHANGED <<server, phase, fs>>

\* the handler starts: strip the prefix, probe the filesystem
BeginWith(c, name, args) ==
  /\ phase = "serving"
  /\ calls[c].pc = "pending"
  /\ \A d \in 1..(c - 1) : calls[d].pc # "pending"
  /\ ~LoopBusy
  /\ LET b == ResolveBackend(server, fs)
     IN  calls' = [calls EXCEPT ![c] =
                     [@ EXCEPT !.pc = "resolved", !.name = name,
                               !.args = args,
                               !.cmd_name = StripPrefix(server, name),
                               !.backend = b.tag, !.cmd = b.cmd,
                               !.seen = fs]]
  /\ UNCHANGED <<server, phase, fs>>

Begin(c) == \E q \in Requests(server) : BeginWith(c, q.name, q.args)

LaunchOutcomesWithFallback(cmd, files) ==
  IF \E i \in 1..Len(cmd) : cmd[i].kind # "str" THEN {"TypeError"}
  ELSE IF cmd[1].s = BINARY_PATH /\ BINARY_PATH \notin files
          /\ SupportScript \notin files
       THEN {"FileNotFoundError"}
       ELSE {"started", "PermissionError"}

\* Popen: the outcomes of starting cmd given the files that exist
LaunchOutcomes(cmd, files) ==
  IF \E i \in 1..Len(cmd) : cmd[i].kind # "str" THEN {"TypeError"}
  ELSE IF cmd[1].s = BINARY_PATH /\ BINARY_PATH \notin files
       THEN {"FileNotFoundError"}
       ELSE {"started", "PermissionError"}

RunSpawnsBeforeBuilt(c) ==
  /\ calls[c].pc = "resolved"
  /\ LET r == calls[c]
         d == Dispatch(server, r.cmd_name, r.args)
         full == r.cmd \o d.toks
     IN  IF ~d.known
         THEN calls' = [calls EXCEPT ![c] = Returned(r, UnknownPayload(r.name))]
         ELSE \E o \in LaunchOutcomes(r.cmd, fs) :
                IF o = "started"
                THEN calls' = [calls EXCEPT ![c] =
                        [r EXCEPT !.pc = "waiting",
                                  !.cmd = IF Raised(d.toks) # "" THEN r.cmd
                                          ELSE full,
                                  !.child = "running",
                                  !.nspawn = r.nspawn + 1,
                                  !.script_ok = (r.backend = "native"
                                                 \/ SCRIPT_PATH(server) \in fs)]]
                ELSE calls' = [calls EXCEPT ![c] =
                        Thrown(server, [r EXCEPT !.cmd = full], o)]
  /\ UNCHANGED <<server, phase, fs>>

\* the if/elif chain, the builder, and the start of subprocess.run
Run(c) ==
  /\ calls[c].pc = "resolved"
  /\ LET r == calls[c]
         d == Dispatch(server, r.cmd_name, r.args)
         full == r.cmd \o d.toks
     IN  IF ~d.known
         THEN calls' = [calls EXCEPT ![c] = Returned(r, UnknownPayload(r.name))]
         ELSE IF Raised(d.toks) # ""
         THEN calls' = [calls EXCEPT ![c] = Thrown(server, r, Raised(d.toks))]
         ELSE \E o \in LaunchOutcomes(full, fs) :
                IF o = "started"
                THEN calls' = [calls EXCEPT ![c] =
                        [r EXCEPT !.pc = "waiting", !.cmd = full,
                                  !.child = "running",
                                  !.nspawn = r.nspawn + 1,
                                  !.script_ok = (r.backend = "native"
                                                 \/ SCRIPT_PATH(server) \in fs)]]
                ELSE calls' = [calls EXCEPT ![c] =
                        Thrown(server, [r EXCEPT !.cmd = full], o)]
  /\ UNCHANGED <<server, phase, fs>>

\* time passes while subprocess.run waits for the child
Tick(c) ==
  /\ calls[c].pc = "waiting"
  /\ calls[c].elapsed < Timeout(server)
  /\ calls' = [calls EXCEPT ![c].elapsed = @ + TickStep]
  /\ UNCHANGED <<server, phase, fs>>

\* the child exits within the budget; the handler returns its output
Complete(c, code, out, err) ==
  /\ calls[c].pc = "waiting"
  /\ calls[c].elapsed < Timeout(server)
  /\ ~calls[c].script_ok => (code = 2 /\ out = "" /\ err = "can't open file")
  /\ calls[c].script_ok => (code \in ExitCodes /\ out \in Stdouts /\ err \in Stderrs)
  /\ LET r == [calls[c] EXCEPT !.child = "exited", !.code = code,
                               !.out = out, !.err = err, !.elapsed = 0]
     IN  calls' = [calls EXCEPT ![c] =
                     IF CheckExit(code) /\ code # 0
                     THEN Thrown(server, r, "CalledProcessError")
                     ELSE Returned(r, Normalize(out, err))]
  /\ UNCHANGED <<server, phase, fs>>

ExpireAtRequested(c) ==
  /\ calls[c].pc = "waiting"
  /\ calls[c].elapsed >= (IF Has(calls[c].args, "timeout")
                             /\ Get(calls[c].args, "timeout").kind = "int"
                          THEN Get(calls[c].args, "timeout").n
                          ELSE Timeout(server))
  /\ calls' = [calls EXCEPT ![c] =
                 Thrown(server, [calls[c] EXCEPT !.child = ChildAfterTimeout],
                        "TimeoutExpired")]
  /\ UNCHANGED <<server, phase, fs>>

\* the budget is used up: subprocess.run raises TimeoutExpired
Expire(c) ==
  /\ calls[c].pc = "waiting"
  /\ calls[c].elapsed >= Timeout(server)
  /\ calls' = [calls EXCEPT ![c] =
                 Thrown(server, [calls[c] EXCEPT !.child = ChildAfterTimeout],
                        "TimeoutExpired")]
  /\ UNCHANGED <<server, phase, fs>>

\* the result has been handed to the caller; arguments, command and result
\* of the call are gone
Close(c) ==
  /\ calls[c].pc = "returned"
  /\ calls' = [calls EXCEPT ![c] =
                 [NoCall EXCEPT !.pc = "closed",
                                !.backend = calls[c].backend,
                                !.nspawn = calls[c].nspawn,
                                !.nret = calls[c].nret]]
  /\ UNCHANGED <<server, phase, fs>>

Next ==
  \/ Main
  \/ \E p \in Paths(server) : FsChange(p)
  \/ \E c \in Calls : Arrive(c)
  \/ \E c \in Calls : Begin(c)
  \/ \E c \in Calls : Run(c)
  \/ \E c \in Calls : Tick(c)
  \/ \E c \in Calls :
       \E code \in ExitCodes \cup {2}, out \in Stdouts \cup {""},
          err \in Stderrs \cup {"can't open file"} : Complete(c, code, out, err)
  \/ \E c \in Calls : Expire(c)
  \/ \E c \in Calls : Close(c)

Spec == Init /\ [][Next]_vars

\* ================================================================== claims
Active(c) == calls[c].pc \in {"resolved", "waiting", "returned"}
Range(seq) == {seq[i] : i \in 1..Len(seq)}
IsErrorPayload(text) == Len(text) > 0 /\ text[1] = ERROR_MARKER

\* the operation a name denotes in the listing, with or without the prefix
Listed(srv, name) ==
  {i \in 1..Len(list_tools(srv)) :
     \/ name = <<PREFIX(srv), list_tools(srv)[i].name>>
     \/ name = <<list_tools(srv)[i].name>>}

MissingRequired(srv, name, args) ==
  \E i \in Listed(srv, name) :
    \E j \in 1..Len(list_tools(srv)[i].params) :
      /\ list_tools(srv)[i].params[j].required
      /\ ~Has(args, list_tools(srv)[i].params[j].name)

\* C1: a call whose arguments omit a required parameter of its operation
\* spawns no child process and returns an error payload.
C1_MissingRequiredRejected ==
  \A c \in Calls :
    (Active(c) /\ MissingRequired(server, calls[c].name, calls[c].args))
      => /\ calls[c].nspawn = 0
         /\ calls[c].pc = "returned" => IsErrorPayload(calls[c].payload)

\* C2: a project-analysis call that starts when neither the native executable
\* nor the fallback script exists spawns no child process and returns an
\* error payload.
C2_NoBackendNoSpawn ==
  server = "support" =>
    \A c \in Calls :
      (Active(c) /\ calls[c].seen = {})
        => /\ calls[c].nspawn = 0
           /\ calls[c].pc = "returned" => IsErrorPayload(calls[c].payload)

\* C3: a project-analysis call spawns the native executable whenever it
\* existed at resolution time, and the fallback script under the interpreter
\* exactly when the native executable was absent and the fallback existed.
C3_BackendChoice ==
  server = "support" =>
    \A c \in Calls :
      (Active(c) /\ calls[c].nspawn = 1)
        => /\ BINARY_PATH \in calls[c].seen
                => calls[c].cmd[1] = PStr(BINARY_PATH)
           /\ (/\ calls[c].cmd[1] = PStr(SysExecutable)
               /\ calls[c].cmd[2] = PStr(SupportScript))
                <=> (/\ BINARY_PATH \notin calls[c].seen
                     /\ SupportScript \in calls[c].seen)

\* C4: a call whose child is still running when the family's budget is used
\* up returns the timeout error payload, and the payload carries the
\* family's budget: 60 for project-analysis, 120 for tracking/learning.
C4_TimeoutPayload ==
  \A c \in Calls :
    (calls[c].pc = "returned" /\ calls[c].nspawn = 1
       /\ calls[c].elapsed >= Timeout(server))
      => /\ calls[c].payload = <<ERROR_MARKER, "Command timed out after ",
                                 IntToStr(Timeout(server)), " seconds">>
         /\ server = "support" => "60" \in Range(calls[c].payload)
         /\ server = "clarify" => "120" \in Range(calls[c].payload)

C4_Witness ==
  \E c \in Calls :
    /\ server = "clarify" /\ calls[c].pc = "returned"
    /\ calls[c].nspawn = 1 /\ calls[c].elapsed >= 120

\* C5: when a call has returned, the child it spawned is not running, and a
\* child that outlived the budget has been killed.
C5_NoOrphan ==
  \A c \in Calls :
    calls[c].pc \in {"returned", "crashed"}
      => /\ calls[c].child # "running"
         /\ (calls[c].nspawn = 1 /\ calls[c].elapsed >= Timeout(server))
              => calls[c].child = "killed"

C5_Witness ==
  \E c \in Calls :
    /\ calls[c].pc = "returned" /\ calls[c].child = "killed"
    /\ calls[c].exc = "TimeoutExpired"

\* C6: a child that exits within the budget with a non-zero exit code gives
\* an ordinary result: no exception is raised, the text starts with the
\* captured stdout and carries the captured stderr.
C6_NonZeroExitIsOutput ==
  \A c \in Calls :
    (calls[c].pc \in {"returned", "crashed"} /\ calls[c].child = "exited"
       /\ calls[c].code # 0)
      => /\ calls[c].pc = "returned"
         /\ calls[c].exc = ""
         /\ calls[c].payload[1] = calls[c].out
         /\ calls[c].err # "" => calls[c].err \in Range(calls[c].payload)
         /\ ERROR_MARKER \notin Range(calls[c].payload)

C6_Witness ==
  \E c \in Calls :
    /\ calls[c].pc = "returned" /\ calls[c].child = "exited"
    /\ calls[c].code = 1 /\ calls[c].err = "err"

\* a call that ended in one of the dispatcher's failures: its name matched no
\* branch, or an exception was raised in the try block
Failed(c) ==
  \/ calls[c].exc # ""
  \/ ~Dispatch(server, calls[c].cmd_name, calls[c].args).known

\* C7: whatever the outcomes of the calls so far, every call that has
\* returned has returned exactly one payload, every failure payload starts
\* with the error marker, no exception has left the handler, and the next
\* request in line can be started once the loop is free.
C7_FailuresContained ==
  \A c \in Calls :
    /\ calls[c].pc # "crashed"
    /\ calls[c].pc \in {"returned", "closed"} => calls[c].nret = 1
    /\ calls[c].pc \in {"idle", "pending", "resolved", "waiting"}
         => calls[c].nret = 0
    /\ (calls[c].pc = "returned" /\ Failed(c))
         => IsErrorPayload(calls[c].payload)
    /\ (/\ calls[c].pc = "pending"
        /\ \A d \in Calls : calls[d].pc \in {"idle", "pending", "closed"}
        /\ \A d \in 1..(c - 1) : calls[d].pc = "closed")
         => ENABLED Begin(c)

C7_Witness ==
  \E c, d \in Calls :
    /\ calls[d].pc = "closed" /\ calls[d].nspawn = 0
    /\ calls[c].pc = "returned" /\ calls[c].exc = "AttributeError"

\* C8: a call whose name is not in the catalog, with or without the prefix,
\* returns the unknown-tool error payload naming it and spawns no child.
C8_UnknownOperation ==
  \A c \in Calls :
    (calls[c].pc \in {"waiting", "returned", "crashed"}
       /\ Listed(server, calls[c].name) = {})
      => /\ calls[c].pc = "returned"
         /\ calls[c].payload
              = <<ERROR_MARKER, "Unknown tool '">> \o calls[c].name \o <<"'">>
         /\ calls[c].nspawn = 0
         /\ calls[c].child = "none"

C8_Witness ==
  \E c \in Calls :
    /\ calls[c].pc = "returned"
    /\ calls[c].name = <<"llm_support_", "llm_support_", "grep">>

\* C9: while one call waits for its child, a request that has arrived can be
\* started by the dispatcher.
C9_ConcurrentCalls ==
  \A c, d \in Calls :
    (/\ calls[c].pc = "waiting" /\ calls[d].pc = "pending"
     /\ \A e \in 1..(d - 1) : calls[e].pc # "pending")
      => ENABLED Begin(d)

\* C10: all calls of one run of the project-analysis dispatcher resolve to
\* the same backend.
C10_BackendMemoized ==
  server = "support" =>
    \A c, d \in Calls :
      (calls[c].backend # "" /\ calls[d].backend # "")
        => calls[c].backend = calls[d].backend

\* C10 (amended): every project-analysis call resolves the backend from the
\* files that exist when its handler starts: the command begins with the
\* native executable exactly when that file exists then, and with the
\* interpreter and the fallback script otherwise.
C10_ResolvedPerCall ==
  server = "support" =>
    \A c \in Calls :
      Active(c) =>
        /\ calls[c].backend = "native" <=> BINARY_PATH \in calls[c].seen
        /\ calls[c].backend = "fallback" <=> BINARY_PATH \notin calls[c].seen
        /\ calls[c].cmd[1] = IF BINARY_PATH \in calls[c].seen
                             THEN PStr(BINARY_PATH) ELSE PStr(SysExecutable)

C10_Witness ==
  \E c, d \in Calls :
    /\ calls[d].pc = "closed" /\ calls[d].backend = "fallback"
    /\ calls[d].nspawn = 1
    /\ calls[c].pc = "waiting" /\ calls[c].backend = "native"

C12_BackendMissing ==
  server = "clarify" =>
    \A c \in Calls :
      (Active(c) /\ ClarifyScript \notin calls[c].seen
         /\ Listed(server, calls[c].name) # {})
        => /\ calls[c].nspawn = 0
           /\ calls[c].pc = "returned" => IsErrorPayload(calls[c].payload)

\* C13: when the executable cannot be started the call returns the error
\* marker followed by the text of the OS error, no child exists and no
\* output of a child is returned.
C13_LaunchFailure ==
  \A c \in Calls :
    (calls[c].pc \in {"returned", "crashed"}
       /\ calls[c].exc \in {"FileNotFoundError", "PermissionError"})
      => /\ calls[c].pc = "returned"
         /\ calls[c].payload =
              <<"ERROR: ",
                IF calls[c].exc = "FileNotFoundError"
                THEN "[Errno 2] No such file or directory"
                ELSE "[Errno 13] Permission denied">>
         /\ calls[c].nspawn = 0 /\ calls[c].child = "none"
         /\ calls[c].out = "" /\ calls[c].err = ""

C13_Witness ==
  \E c \in Calls :
    /\ calls[c].pc = "returned" /\ calls[c].exc = "FileNotFoundError"
    /\ calls[c].backend = "native"

\* the family whose catalog lists the operation, and the family whose
\* backend a command starts
FamilyOfOperation(cmd_name) ==
  IF \E i \in 1..Len(SupportTools) : cmd_name = <<SupportTools[i].name>>
  THEN "support"
  ELSE IF \E i \in 1..Len(ClarifyTools) : cmd_name = <<ClarifyTools[i].name>>
       THEN "clarify" ELSE "none"

FamilyOfCommand(cmd) ==
  IF cmd[1].s = BINARY_PATH THEN "support"
  ELSE IF cmd[1].s = SysExecutable /\ Len(cmd) > 1
       THEN IF cmd[2].s = SupportScript THEN "support"
            ELSE IF cmd[2].s = ClarifyScript THEN "clarify" ELSE "none"
       ELSE "none"

C15_NoRetry ==
  [][\A c \in Calls :
       /\ calls'[c].nspawn <= 1
       /\ calls[c].nspawn = 1 => calls'[c].nspawn = 1
       /\ calls[c].pc \in {"returned", "closed"}
            => calls'[c].nspawn = calls[c].nspawn]_vars

C15_Witness ==
  \E c, d \in Calls :
    /\ calls[c].pc = "returned" /\ calls[c].nspawn = 1 /\ calls[c].code = 1
    /\ calls[d].pc = "closed" /\ calls[d].nspawn = 0

\* ======================================================= the compiler alone
\* the values a caller may pass for a parameter of the declared JSON type
Values(kind) ==
  CASE kind = "string"  -> {PStr("x")}
    [] kind = "integer" -> {PInt(2)}
    [] kind = "boolean" -> {PBool(TRUE), PBool(FALSE)}
    [] kind = "array"   -> {PList(<<"src">>), PList(<<"a", "b">>)}
    [] kind = "object"  -> {PDict(<< <<"k", PStr("v")>> >>),
                            PDict(<< <<"b", PStr("v")>>, <<"a", PInt(2)>> >>)}

\* every ArgumentMap over the parameters of a tool: each parameter absent or
\* present with one of its values
ArgMaps(params) ==
  LET F[i \in 0..Len(params)] ==
        IF i = 0 THEN {<<>>}
        ELSE F[i - 1] \cup
             {Append(a, Arg(params[i].name, v)) :
                a \in F[i - 1], v \in Values(params[i].kind)}
  IN  F[Len(params)]

\* the same entries, inserted in the opposite order
Reverse(seq) == [i \in 1..Len(seq) |-> seq[Len(seq) + 1 - i]]

\* every tool with every ArgumentMap, its keys in the order of the schema and
\* in the opposite order, and the tool's name without the prefix
ToolInputs(srv) ==
  LET T == list_tools(srv)
  IN  UNION { UNION { {Request(<<PREFIX(srv), T[i].name>>, a),
                       Request(<<PREFIX(srv), T[i].name>>, Reverse(a)),
                       Request(<<T[i].name>>, a)}
                      : a \in ArgMaps(T[i].params) }
              : i \in 1..Len(T) }

SupportInputs == ToolInputs("support") \cup SupportExtra
ClarifyInputs == ToolInputs("clarify") \cup ClarifyExtra
CompileInputs(srv) == IF srv = "support" THEN SupportInputs ELSE ClarifyInputs

InitCompile ==
  /\ server \in Servers
  /\ phase = "compile"
  /\ fs \in SUBSET Paths(server)
  /\ \E q \in CompileInputs(server) :
       calls = [c \in Calls |->
                  IF c = 1
                  THEN [NoCall EXCEPT !.pc = "input", !.name = q.name,
                                      !.args = q.args]
                  ELSE NoCall]

CompileBackendAware(c) ==
  /\ phase = "compile"
  /\ calls[c].pc = "input"
  /\ LET r == calls[c]
         b == ResolveBackend(server, fs)
         n == StripPrefix(server, r.name)
         d == Dispatch(server, n, r.args)
         t == IF b.tag = "fallback" /\ d.known
              THEN <<d.toks[1], PStr("--legacy")>> \o Tail(d.toks)
              ELSE d.toks
     IN  calls' = [calls EXCEPT ![c] =
                     [r EXCEPT !.cmd_name = n, !.backend = b.tag, !.seen = fs,
                               !.cmd = b.cmd \o t,
                               !.exc = IF d.known THEN Raised(d.toks) ELSE "",
                               !.pc = IF ~d.known THEN "unknown"
                                      ELSE IF Raised(d.toks) # "" THEN "raised"
                                      ELSE "compiled"]]
  /\ UNCHANGED <<server, phase, fs>>

\* call_tool up to the point where cmd is complete: prefix stripped, backend
\* probed, subcommand and builder tokens appended
Compile(c) ==
  /\ phase = "compile"
  /\ calls[c].pc = "input"
  /\ LET r == calls[c]
         b == ResolveBackend(server, fs)
         n == StripPrefix(server, r.name)
         d == Dispatch(server, n, r.args)
     IN  calls' = [calls EXCEPT ![c] =
                     [r EXCEPT !.cmd_name = n, !.backend = b.tag, !.seen = fs,
                               !.cmd = b.cmd \o d.toks,
                               !.exc = IF d.known THEN Raised(d.toks) ELSE "",
                               !.pc = IF ~d.known THEN "unknown"
                                      ELSE IF Raised(d.toks) # "" THEN "raised"
                                      ELSE "compiled"]]
  /\ UNCHANGED <<server, phase, fs>>

NextCompile == \E c \in Calls : Compile(c)

SpecCompile == InitCompile /\ [][NextCompile]_vars

\* the tokens that follow the backend prefix of a compiled command
PrefixLen(c) == IF calls[c].backend = "native" THEN 1 ELSE 2
Tokens(c) == SubSeq(calls[c].cmd, PrefixLen(c) + 1, Len(calls[c].cmd))
Count(t, seq) == Cardinality({i \in 1..Len(seq) : seq[i] = t})

\* the flag a boolean parameter of a tool stands for
BooleanFlag(tool, param) ==
  CASE tool = "grep" /\ param = "ignore_case"  -> "-i"
    [] tool = "grep" /\ param = "line_numbers" -> "-n"
    [] tool = "grep" /\ param = "files_only"   -> "-l"
    [] param = "sizes"            -> "--sizes"
    [] param = "no_gitignore"     -> "--no-gitignore"
    [] param = "verbose"          -> "--verbose"
    [] param = "plain"            -> "--plain"
    [] param = "json"             -> "--json"
    [] param = "json_output"      -> "--json"
    [] param = "ignore_case"      -> "--ignore-case"
    [] param = "definitions_only" -> "--definitions-only"
    [] param = "recursive"        -> "--recursive"
    [] param = "include_diff"     -> "--include-diff"
    [] param = "validate"         -> "--validate"
    [] param = "force"            -> "--force"
    [] param = "check_match"      -> "--check-match"

\* C17: in every compiled command, the flag of each boolean parameter of the
\* operation occurs exactly once when the parameter is true and not at all
\* when it is false or absent.
C17_BooleanFlags ==
  \A c \in Calls :
    calls[c].pc = "compiled" =>
      \A i \in Listed(server, calls[c].name) :
        LET tool == list_tools(server)[i]
        IN  \A j \in 1..Len(tool.params) :
              tool.params[j].kind = "boolean" =>
                Count(PStr(BooleanFlag(tool.name, tool.params[j].name)),
                      Tokens(c))
                  = IF /\ Has(calls[c].args, tool.params[j].name)
                       /\ Get(calls[c].args, tool.params[j].name) = PBool(TRUE)
                    THEN 1 ELSE 0

C17_Witness ==
  \E c \in Calls :
    /\ calls[c].pc = "compiled" /\ calls[c].cmd_name = <<"multigrep">>
    /\ Has(calls[c].args, "ignore_case")
    /\ Get(calls[c].args, "ignore_case") = PBool(TRUE)
    /\ Has(calls[c].args, "json") /\ Get(calls[c].args, "json") = PBool(FALSE)
    /\ ~Has(calls[c].args, "definitions_only")

\* C18: grep compiles to the backend prefix, then grep, the pattern, the
\* elements of paths in order, then -i, -n, -l for those of ignore_case,
\* line_numbers, files_only that are true; the example of the specification
\* gives grep, TODO, src, -i.
C18_GrepOrder ==
  \A c \in Calls :
    (calls[c].pc = "compiled" /\ calls[c].cmd_name = <<"grep">>) =>
      LET a == calls[c].args
          on(k) == Has(a, k) /\ Get(a, k) = PBool(TRUE)
          paths == IF Has(a, "paths") THEN Get(a, "paths").items ELSE <<>>
          expected ==
            <<"grep">>
              \o (IF Has(a, "pattern") THEN <<Get(a, "pattern").s>> ELSE <<>>)
              \o paths
              \o (IF on("ignore_case") THEN <<"-i">> ELSE <<>>)
              \o (IF on("line_numbers") THEN <<"-n">> ELSE <<>>)
              \o (IF on("files_only") THEN <<"-l">> ELSE <<>>)
      IN  /\ calls[c].cmd[1].s = (IF BINARY_PATH \in fs THEN BINARY_PATH
                                  ELSE SysExecutable)
          /\ Tokens(c) = [i \in 1..Len(expected) |-> PStr(expected[i])]
          /\ a = <<Arg("pattern", PStr("TODO")), Arg("paths", PList(<<"src">>)),
                   Arg("ignore_case", PBool(TRUE))>>
               => Tokens(c) = <<PStr("grep"), PStr("TODO"), PStr("src"),
                                PStr("-i")>>

C18_Witness ==
  \E c \in Calls :
    /\ calls[c].pc = "compiled" /\ calls[c].cmd_name = <<"grep">>
    /\ calls[c].args = <<Arg("pattern", PStr("TODO")),
                         Arg("paths", PList(<<"src">>)),
                         Arg("ignore_case", PBool(TRUE))>>
    /\ calls[c].backend = "native"

\* s can be obtained from t by deleting tokens
RECURSIVE IsSubseq(_, _)
IsSubseq(s, t) ==
  IF s = <<>> THEN TRUE
  ELSE IF t = <<>> THEN FALSE
  ELSE IF Head(s) = Head(t) THEN IsSubseq(Tail(s), Tail(t))
  ELSE IsSubseq(s, Tail(t))

\* the number of subcommand tokens of an operation
SubLen(cmd_name) ==
  IF cmd_name \in {<<"json_query">>, <<"markdown_headers">>} THEN 2 ELSE 1

\* the tokens after the subcommand that the operation compiles args to
ArgTokens(cmd_name, args) ==
  LET t == Dispatch(server, cmd_name, args).toks
  IN  SubSeq(t, SubLen(cmd_name) + 1, Len(t))

\* every token after the subcommand goes away when the parameters are taken
\* out of the map one by one
Attributable(cmd_name, args) ==
  \A j \in 1..Len(args) :
    IsSubseq(ArgTokens(cmd_name, Omit(args, j)), ArgTokens(cmd_name, args))

\* C19: every token after the subcommand comes from a parameter that is
\* present: an empty map compiles to the subcommand alone, leaving a parameter
\* out only removes tokens, and repo_root with {validate: true} compiles to
\* repo-root, --validate.
C19_NothingInjected ==
  \A c \in Calls :
    calls[c].pc = "compiled" =>
      /\ calls[c].args = <<>> => ArgTokens(calls[c].cmd_name, <<>>) = <<>>
      /\ Attributable(calls[c].cmd_name, calls[c].args)
      /\ (calls[c].cmd_name = <<"repo_root">>
            /\ calls[c].args = <<Arg("validate", PBool(TRUE))>>)
           => Tokens(c) = <<PStr("repo-root"), PStr("--validate")>>

\* C19 (amended): as C19, except that multiexists always ends with the fixed
\* flag --no-fail, which no parameter produces.
C19_OnlyNoFailInjected ==
  \A c \in Calls :
    calls[c].pc = "compiled" =>
      /\ calls[c].args = <<>> =>
           ArgTokens(calls[c].cmd_name, <<>>)
             = (IF calls[c].cmd_name = <<"multiexists">>
                THEN <<PStr("--no-fail")>> ELSE <<>>)
      /\ calls[c].cmd_name = <<"multiexists">> =>
           /\ Count(PStr("--no-fail"), Tokens(c)) = 1
           /\ Tokens(c)[Len(Tokens(c))] = PStr("--no-fail")
      /\ Attributable(calls[c].cmd_name, calls[c].args)
      /\ (calls[c].cmd_name = <<"repo_root">>
            /\ calls[c].args = <<Arg("validate", PBool(TRUE))>>)
           => Tokens(c) = <<PStr("repo-root"), PStr("--validate")>>

C19_Witness ==
  \E c \in Calls :
    /\ calls[c].pc = "compiled" /\ calls[c].cmd_name = <<"multiexists">>
    /\ calls[c].args = <<>>
    /\ Tokens(c) = <<PStr("multiexists"), PStr("--no-fail")>>

\* the dynamic type that a declared JSON type stands for
KindOf(jsontype) ==
  CASE jsontype = "string"  -> "str"
    [] jsontype = "integer" -> "int"
    [] jsontype = "boolean" -> "bool"
    [] jsontype = "array"   -> "list"
    [] jsontype = "object"  -> "dict"

KindMismatch(srv, name, args) ==
  \E i \in Listed(srv, name) :
    \E j \in 1..Len(list_tools(srv)[i].params) :
      LET p == list_tools(srv)[i].params[j]
      IN  Has(args, p.name) /\ Get(args, p.name).kind # KindOf(p.kind)

\* C20: a call that passes a value whose dynamic type differs from the
\* declared type of its parameter spawns no child process and returns an
\* error payload.
C20_KindMismatchRejected ==
  \A c \in Calls :
    (Active(c) /\ KindMismatch(server, calls[c].name, calls[c].args))
      => /\ calls[c].nspawn = 0
         /\ calls[c].pc = "returned" => IsErrorPayload(calls[c].payload)

\* C21: for a child that completed, the returned text is exactly the captured
\* stdout when stderr is empty, and stdout, then the separator, then the whole
\* of stderr when stderr is not empty.
C21_BothChannels ==
  \A c \in Calls :
    (calls[c].pc = "returned" /\ calls[c].child = "exited") =>
      /\ calls[c].err = "" => calls[c].payload = <<calls[c].out>>
      /\ calls[c].err # "" =>
           /\ Len(calls[c].payload) = 3
           /\ calls[c].payload[1] = calls[c].out
           /\ calls[c].payload[2] = "\n\nSTDERR:\n"
           /\ calls[c].payload[3] = calls[c].err

C21_Witness ==
  \E c, d \in Calls :
    /\ calls[c].pc = "closed" /\ calls[c].nspawn = 1
    /\ calls[d].pc = "returned" /\ calls[d].child = "exited"
    /\ calls[d].out = "out" /\ calls[d].err = "err" /\ calls[d].code = 0

\* the number of tokens a parameter contributes when it is a position or a
\* true flag
One(args, k) == IF Has(args, k) THEN 1 ELSE 0
On(args, k) == IF Has(args, k) /\ Get(args, k) = PBool(TRUE) THEN 1 ELSE 0

\* C22: the list paths of grep and of multiexists compiles to one token per
\* element, in the order of the list, between the tokens before and after it;
\* the map vars of template compiles to one pair --var, key=value per entry,
\* in the order of the map; nothing is left out, repeated or moved.
C22_ListAndMapExpansion ==
  \A c \in Calls :
    calls[c].pc = "compiled" =>
      LET a == calls[c].args
          t == Tokens(c)
      IN  /\ (calls[c].cmd_name = <<"grep">> /\ Has(a, "paths")
                /\ Get(a, "paths").kind = "list") =>
                LET l == Get(a, "paths").items
                    off == 1 + One(a, "pattern")
                IN  /\ Len(t) = off + Len(l) + On(a, "ignore_case")
                                  + On(a, "line_numbers") + On(a, "files_only")
                    /\ \A i \in 1..Len(l) : t[off + i] = PStr(l[i])
          /\ (calls[c].cmd_name = <<"multiexists">> /\ Has(a, "paths")
                /\ Get(a, "paths").kind = "list") =>
                LET l == Get(a, "paths").items
                IN  /\ Len(t) = 1 + Len(l) + On(a, "verbose") + 1
                    /\ \A i \in 1..Len(l) : t[1 + i] = PStr(l[i])
          /\ (calls[c].cmd_name = <<"template">> /\ Has(a, "vars")
                /\ Get(a, "vars").kind = "dict") =>
                LET p == Get(a, "vars").pairs
                    off == 1 + One(a, "file")
                IN  /\ Len(t) = off + 2 * Len(p) + 2 * One(a, "syntax")
                    /\ \A i \in 1..Len(p) :
                         /\ t[off + 2 * i - 1] = PStr("--var")
                         /\ t[off + 2 * i]
                              = PStr(p[i][1] \o "=" \o PyStr(p[i][2]))

C22_Witness ==
  \E c \in Calls :
    /\ calls[c].pc = "compiled" /\ calls[c].cmd_name = <<"grep">>
    /\ Has(calls[c].args, "pattern") /\ Has(calls[c].args, "paths")
    /\ Get(calls[c].args, "paths") = PList(<<"a", "b">>)
    /\ Len(Tokens(c)) >= 4
    /\ SubSeq(Tokens(c), 3, 4) = <<PStr("a"), PStr("b")>>

\* the operation names a listing returns, without the family prefix
ListedNames(srv) ==
  {list_tools(srv)[i].name : i \in 1..Len(list_tools(srv))}

\* C23: the listings return 17 project-analysis names and 8 tracking/learning
\* names, 25 distinct names in all; a dispatcher routes a name to a builder
\* exactly when its own listing returns that name, and every call ends as
\* unknown exactly when its name, with or without the prefix, is not listed.
C23_CatalogAgrees ==
  /\ Len(list_tools("support")) = 17
  /\ Cardinality(ListedNames("support")) = 17
  /\ Len(list_tools("clarify")) = 8
  /\ Cardinality(ListedNames("clarify")) = 8
  /\ Cardinality(UNION { {<<PREFIX(srv), n>> : n \in ListedNames(srv)}
                          : srv \in Servers }) = 25
  /\ Cardinality(ListedNames("support") \cup ListedNames("clarify")) = 25
  /\ \A srv \in Servers :
       \A n \in ListedNames("support") \cup ListedNames("clarify") \cup {"bogus"} :
         Dispatch(srv, <<n>>, <<>>).known <=> n \in ListedNames(srv)
  /\ \A c \in Calls :
       calls[c].pc \in {"compiled", "raised", "unknown"} =>
         (calls[c].pc = "unknown" <=> Listed(server, calls[c].name) = {})

C23_Witness ==
  \E c \in Calls :
    /\ calls[c].pc = "compiled" /\ server = "clarify"
    /\ calls[c].name = <<"llm_clarify_", "list">>
    /\ calls[c].cmd[3] = PStr("list-entries")

\* C24: the command of a project-analysis call is the prefix of the selected
\* backend (the native executable alone, or the interpreter and the fallback
\* script) followed by tokens that are a function of the operation and the
\* ArgumentMap only: the same whichever backend was selected.
C24_SameTokensEitherBackend ==
  server = "support" =>
    \A c \in Calls :
      calls[c].pc \in {"compiled", "raised"} =>
        /\ calls[c].backend \in {"native", "fallback"}
        /\ calls[c].backend = "native" <=> BINARY_PATH \in fs
        /\ SubSeq(calls[c].cmd, 1, PrefixLen(c))
             = (IF calls[c].backend = "native" THEN <<PStr(BINARY_PATH)>>
                ELSE <<PStr(SysExecutable), PStr(SupportScript)>>)
        /\ Tokens(c) = SupportDispatch(calls[c].cmd_name, calls[c].args).toks

C24_Witness ==
  \E c \in Calls :
    /\ server = "support" /\ calls[c].pc = "compiled"
    /\ calls[c].backend = "fallback" /\ SupportScript \in fs
    /\ calls[c].cmd_name = <<"count">>
    /\ Len(calls[c].args) = 4

\* the command of call c as its own name and arguments and the files seen
\* when its handler started determine it
OwnCommand(c) ==
  LET d == Dispatch(server, calls[c].cmd_name, calls[c].args)
      prefix == ResolveBackend(server, calls[c].seen).cmd
  IN  IF calls[c].pc = "resolved" \/ ~d.known \/ Raised(d.toks) # ""
      THEN prefix ELSE prefix \o d.toks

\* the result of call c as its own name and arguments and what its own child
\* did determine it
OwnResult(c) ==
  IF ~Dispatch(server, calls[c].cmd_name, calls[c].args).known
  THEN UnknownPayload(calls[c].name)
  ELSE IF calls[c].exc # "" THEN ExceptClause(server, calls[c].exc).payload
  ELSE Normalize(calls[c].out, calls[c].err)

\* a step of a call changes the record of that call and nothing else
OneCallStep ==
  calls' # calls =>
    /\ UNCHANGED <<server, phase, fs>>
    /\ \E c \in Calls : \A d \in Calls \ {c} : calls'[d] = calls[d]

\* C25: a call changes no state of the dispatcher but its own record, and its
\* command and its result are those that its own name and arguments, the
\* files that existed when it started and the behaviour of its own child
\* determine, whatever calls came before it.
C25_NoSharedState ==
  /\ [](\A c \in Calls :
          /\ Active(c) => calls[c].cmd = OwnCommand(c)
          /\ calls[c].pc = "returned" => calls[c].payload = OwnResult(c))
  /\ [][OneCallStep]_vars

C25_Witness ==
  \E c, d \in Calls :
    /\ c < d /\ calls[c].pc = "closed" /\ calls[c].nspawn = 1
    /\ calls[d].pc = "returned" /\ calls[d].nspawn = 1
    /\ calls[d].exc = "TimeoutExpired"

\* call c is about to start its process: its name is routed and its tokens
\* were built without an exception
ReachesLaunch(c) ==
  /\ calls[c].pc = "resolved"
  /\ Dispatch(server, calls[c].cmd_name, calls[c].args).known
  /\ Raised(Dispatch(server, calls[c].cmd_name, calls[c].args).toks) = ""

\* C26: when a project-analysis call saw the native executable at its
\* existence check and the file is gone when the call starts its process, the
\* call returns the error payload of the failed launch of the native
\* executable (file not found, or a type error when a token is not a string)
\* and no process is started, whether or not the fallback script exists.
C26_NoFallbackAfterCheck ==
  [][\A c \in Calls :
       (/\ server = "support"
        /\ ReachesLaunch(c) /\ calls'[c].pc # "resolved"
        /\ BINARY_PATH \in calls[c].seen /\ BINARY_PATH \notin fs)
         => /\ calls'[c].pc = "returned"
            /\ calls'[c].exc
                 = (IF \A i \in 1..Len(calls'[c].cmd) :
                          calls'[c].cmd[i].kind = "str"
                    THEN "FileNotFoundError" ELSE "TypeError")
            /\ calls'[c].payload = <<ERROR_MARKER, ExcText(calls'[c].exc)>>
            /\ calls'[c].cmd[1] = PStr(BINARY_PATH)
            /\ calls'[c].nspawn = 0 /\ calls'[c].child = "none"]_vars

C26_Witness ==
  \E c \in Calls :
    /\ server = "support" /\ calls[c].pc = "returned"
    /\ BINARY_PATH \in calls[c].seen /\ BINARY_PATH \notin fs
    /\ SupportScript \in calls[c].seen /\ SupportScript \in fs
    /\ calls[c].exc = "FileNotFoundError" /\ calls[c].nspawn = 0

\* the map with its j-th and (j+1)-th entries exchanged
Swap(seq, j) ==
  [i \in 1..Len(seq) |-> IF i = j THEN seq[j + 1]
                         ELSE IF i = j + 1 THEN seq[j] ELSE seq[i]]

\* C27: the tokens compiled from an ArgumentMap are those compiled from the
\* map with any two neighbouring keys exchanged and from the map with its
\* keys in the opposite order: the order of the keys of the map has no part
\* in the order of the tokens.
C27_KeyOrderIrrelevant ==
  \A c \in Calls :
    calls[c].pc \in {"compiled", "raised"} =>
      LET a == calls[c].args
          n == calls[c].cmd_name
      IN  /\ Tokens(c) = Dispatch(server, n, Reverse(a)).toks
          /\ \A j \in 1..(Len(a) - 1) :
               Tokens(c) = Dispatch(server, n, Swap(a, j)).toks

C27_Witness ==
  \E c \in Calls :
    /\ calls[c].pc = "compiled" /\ calls[c].cmd_name = <<"count">>
    /\ Len(calls[c].args) = 4
    /\ calls[c].args[1].key = "pattern" /\ calls[c].args[4].key = "mode"
    /\ Tokens(c)[2] = PStr("--mode")

\* C28: a name that starts with the family prefix is looked up without that
\* one prefix, any other name as it is: a prefixed name compiles to the
\* command that the name without the prefix compiles to for the same
\* arguments, and a name that carries the prefix twice is unknown.
C28_PrefixOptionalOnce ==
  \A c \in Calls :
    calls[c].pc \in {"compiled", "raised", "unknown"} =>
      LET nm == calls[c].name
          bare == IF Len(nm) > 0 /\ nm[1] = PREFIX(server)
                  THEN SubSeq(nm, 2, Len(nm)) ELSE nm
          d == Dispatch(server, bare, calls[c].args)
      IN  /\ calls[c].cmd_name = bare
          /\ calls[c].pc = "unknown" <=> ~d.known
          /\ calls[c].cmd = ResolveBackend(server, fs).cmd \o d.toks
          /\ (Len(nm) > 1 /\ nm[1] = PREFIX(server) /\ nm[2] = PREFIX(server))
               => calls[c].pc = "unknown"
          /\ (server = "support" /\ nm \in {<<"llm_support_", "grep">>, <<"grep">>})
               => /\ calls[c].pc # "unknown"
                  /\ Tokens(c) = Sub(<<"grep">>) \o _build_grep_args(calls[c].args)
          /\ (server = "clarify" /\ nm \in {<<"llm_clarify_", "add">>, <<"add">>})
               => /\ calls[c].pc # "unknown"
                  /\ Tokens(c) = Sub(<<"add-clarification">>)
                                   \o _build_add_args(calls[c].args)

C28_Witness ==
  \E c \in Calls :
    /\ server = "clarify" /\ calls[c].pc = "compiled"
    /\ calls[c].name = <<"add">> /\ Len(calls[c].args) = 2
    /\ calls[c].cmd[3] = PStr("add-clarification")

\* the exception that building the tokens of call c raises ("" when none)
BuildError(c) ==
  LET t == Dispatch(server, calls[c].cmd_name, calls[c].args).toks
      bad == {i \in 1..Len(t) : t[i].kind = "raise"}
  IN  IF bad = {} THEN ""
      ELSE t[CHOOSE i \in bad : \A j \in bad : i <= j].s

\* C29: before the name is looked up and the tokens are built no process has
\* been started; a process that was started was started with the prefix and
\* the whole token sequence of a routed name; output is normalized only after
\* the process has exited; and a call whose builder raises returns the error
\* payload of that exception with no process started.
C29_CompileThenSpawn ==
  \A c \in Calls :
    /\ calls[c].pc \in {"idle", "pending", "resolved"}
         => calls[c].nspawn = 0 /\ calls[c].child = "none"
    /\ (Active(c) /\ calls[c].nspawn > 0)
         => /\ Dispatch(server, calls[c].cmd_name, calls[c].args).known
            /\ BuildError(c) = ""
            /\ calls[c].cmd
                 = ResolveBackend(server, calls[c].seen).cmd
                     \o Dispatch(server, calls[c].cmd_name, calls[c].args).toks
    /\ (calls[c].pc = "returned" /\ ~IsErrorPayload(calls[c].payload))
         => /\ calls[c].nspawn = 1 /\ calls[c].child = "exited"
            /\ calls[c].payload = Normalize(calls[c].out, calls[c].err)
    /\ (calls[c].pc \in {"waiting", "returned"}
          /\ Dispatch(server, calls[c].cmd_name, calls[c].args).known
          /\ BuildError(c) # "")
         => /\ calls[c].pc = "returned"
            /\ calls[c].nspawn = 0 /\ calls[c].child = "none"
            /\ calls[c].exc = BuildError(c)
            /\ calls[c].payload = <<ERROR_MARKER, ExcText(BuildError(c))>>

C29_Witness ==
  \E c \in Calls :
    /\ calls[c].pc = "returned" /\ calls[c].cmd_name = <<"grep">>
    /\ Has(calls[c].args, "paths") /\ Get(calls[c].args, "paths").kind = "int"
    /\ calls[c].exc = "TypeError" /\ calls[c].nspawn = 0
    /\ BINARY_PATH \in fs

\* the tracking/learning operations whose schema has a timeout parameter
TimeoutOperations ==
  {list_tools("clarify")[i].name :
     i \in {j \in 1..Len(list_tools("clarify")) :
              \E k \in 1..Len(list_tools("clarify")[j].params) :
                list_tools("clarify")[j].params[k].name = "timeout"}}

\* C30: the operations that take a timeout are match, cluster,
\* detect_conflicts and validate; a call of one of them with timeout 300 runs
\* a command in which --timeout occurs once, followed by 300, and its child is
\* given the budget of 120 all the same: once 120 has passed the child can
\* neither run on nor complete, the call times out, the child is killed and
\* the payload names 120.
C30_TimeoutOnlyForwarded ==
  /\ TimeoutOperations = {"match", "cluster", "detect_conflicts", "validate"}
  /\ server = "clarify" =>
       \A c \in Calls :
         (/\ calls[c].pc \in {"waiting", "returned"} /\ calls[c].nspawn = 1
          /\ calls[c].cmd_name \in {<<n>> : n \in TimeoutOperations}
          /\ Has(calls[c].args, "timeout")
          /\ Get(calls[c].args, "timeout") = PInt(300))
           => /\ Count(PStr("--timeout"), calls[c].cmd) = 1
              /\ Count(PStr("300"), calls[c].cmd) = 1
              /\ \E i \in 1..(Len(calls[c].cmd) - 1) :
                   /\ calls[c].cmd[i] = PStr("--timeout")
                   /\ calls[c].cmd[i + 1] = PStr("300")
              /\ calls[c].elapsed < 120 + TickStep
              /\ (calls[c].pc = "waiting" /\ calls[c].elapsed >= 120)
                   => /\ ENABLED Expire(c)
                      /\ ~ENABLED Tick(c)
                      /\ \A code \in ExitCodes, out \in Stdouts, err \in Stderrs :
                           ~ENABLED Complete(c, code, out, err)
              /\ (calls[c].pc = "returned" /\ calls[c].elapsed >= 120)
                   => /\ calls[c].exc = "TimeoutExpired"
                      /\ calls[c].child = "killed"
                      /\ calls[c].payload
                           = <<ERROR_MARKER, "Command timed out after ", "120",
                               " seconds">>

C30_Witness ==
  \E c \in Calls :
    /\ server = "clarify" /\ calls[c].pc = "returned"
    /\ calls[c].cmd_name = <<"match">>
    /\ Has(calls[c].args, "timeout")
    /\ Get(calls[c].args, "timeout") = PInt(300)
    /\ calls[c].exc = "TimeoutExpired" /\ calls[c].elapsed >= 120

====
